---- MODULE Spec2Model ----
(***************************************************************************)
(* A model of csi-proxy's server orchestrator (pkg/server/server.go) and   *)
(* of the service lifecycle controller (pkg/os/system/api.go).             *)
(*                                                                         *)
(* ServerSpec: one Server instance, the goroutines that call Start on it,  *)
(* one goroutine that calls Stop on it from outside, and the serve         *)
(* goroutine of every versioned API.                                       *)
(* WaitSpec: one call of ServiceManagerImpl.WaitUntilServiceState.         *)
(***************************************************************************)
EXTENDS Integers, Sequences, FiniteSets, TLC

\* ------------------------------------------------------------------ bounds
\* The largest number of versioned APIs a Server is constructed with.
MaxAPIs == 2
\* The largest number of Stop calls the outside goroutine makes.
MaxStops == 2
\* The interval and the timeout a WaitUntilServiceState call is given, and
\* how long after the timeout the clock is still followed, in time units.
WInterval == 10
WTimeout == 100
WSlack == 1
\* The services GetDependentsForService may meet, the largest number of
\* "is a dependent of" associations between them, and the longest
\* servicesToCheck the model follows.
Services == {"A", "B", "C", "D"}
MaxEdges == 4
MaxQueue == 8
\* The longest list of dependents a StopService call is handed.
MaxNames == 2
\* The longest list of records a query returns, and the largest number of
\* rows of an association class.
MaxRecords == 2
MaxRows == 2
\* The result codes of the service's stop method (api.go:40-46).
stopServiceErrorCodeAccepted == 0
stopServiceErrorCodeStopPending == 5
stopServiceErrorCodeDependentRunning == 3
\* The result codes of the service's start method (api.go:34-37).
startServiceErrorCodeAccepted == 0
startServiceErrorCodeAlreadyRunning == 10

\* The goroutines that call Start, and the one that calls Stop from outside.
Callers == {"a", "b"}
Stoppers == {"x"}
Procs == Callers \cup Stoppers

VARIABLES
    \* ---- Server (server.go:20-27) and what hangs off it
    versionedAPIs,   \* the number of versioned APIs, fixed by NewServer
    started,         \* Server.started
    mutex,           \* Server.mutex: "free" or the goroutine holding it
    grpcServers,     \* Server.grpcServers: index -> "nil" | "created" | "stopped"
    listeners,       \* the named pipes: index -> "nil" | "open" | "closed"
    doneChan,        \* the buffered channel of versionedAPIDone events
    doneChanClosed,  \* whether doneChan has been closed (Start's defer)
    listeningChan,   \* caller -> how often that Start closed the channel
    \* ---- the goroutines calling Start and Stop
    pc,              \* goroutine -> where it is
    index,           \* caller -> loop index of createAndStartGRPCServers
    doneCount,       \* caller -> events received in waitForGRPCServersToStop
    errs,            \* caller -> the error list built by waitForGRPCServersToStop
    listenErr,       \* caller -> the error list returned by startListening
    result,          \* goroutine -> what its last call returned
    stopCalls,       \* the Stop calls the outside goroutine has made
    \* ---- the serve goroutines (server.go:167-174)
    gpc,             \* index -> "none" | "spawned" | "serving" | "sending" | "exited"
    gerr,            \* index -> the error its Serve returned
    \* ---- history, read by the properties only
    passed,          \* the callers whose Start passed the started check
    ownStops,        \* caller -> Stop calls made by waitForGRPCServersToStop
    stopsDone,       \* Stop calls that returned nil
    everStopped,     \* the indexes whose server some Stop has stopped
    recvFrom,        \* caller -> the indexes whose event it has received
    listenFailed,    \* the indexes whose ListenPipe failed
    \* ---- one call of WaitUntilServiceState (api.go:294-328)
    wpc,             \* where the call is
    wState,          \* the local variable state
    wRet,            \* what the call returned
    wElapsed,        \* the time since the ticker and the timer were made
    wTick,           \* whether ticker.C holds a tick (it buffers one)
    \* ---- history, read by the properties only
    wChecks,         \* the invocations of stateCheck
    wTransitions,    \* the invocations of stateTransition
    wActive,         \* the invocations of stateCheck that have not returned
    wTrace,          \* the invocations so far, in order
    wFirst,          \* what the first stateCheck returned
    wLast,           \* what the latest stateCheck returned
    wResults,        \* kind, done and err of every stateCheck that returned
    wTransErr,       \* what stateTransition returned
    wTimers,         \* whether the ticker and the timer have been made
    wLate,           \* whether time passed while a stateCheck ran or a
                     \* select case was ready
    \* ---- one call of GetDependentsForService (api.go:330-373)
    dpc,             \* where the call is
    dRoot,           \* the argument name
    dGraph,          \* <<s, d>>: d is a dependent of s
    dActive,         \* the services whose state is Running
    servicesToCheck, \* the local variable servicesToCheck
    checkIndex,      \* the local variable i
    serviceNames,    \* the local variable serviceNames, returned at the end
    servicesByName,  \* the keys of the local variable servicesByName
    dErr,            \* the error the call returned
    dLookups,        \* history: the GetDependents calls made on each service
    \* ---- one call of StopService (api.go:233-252)
    spc,             \* where the call is
    sName,           \* the argument name
    sForce,          \* the argument force
    sDependentRunning, \* the local variable dependentRunning
    sErr,            \* the local variable err
    sNames,          \* the local variable serviceNames
    sNext,           \* how many of serviceNames the loop has been through
    sRet,            \* what the call returned
    \* ---- history, read by the properties only
    sStops,          \* one record for every stopSingleService call, in order
    sGetDeps,        \* the GetDependentsForService calls made
    sRootState,      \* the state GetDependentsForService read for the root
    \* ---- one call of StartService (api.go:160-192)
    tpc,             \* where the call is
    tRun,            \* how its WaitUntilServiceState call goes
    tRet,            \* what the call returned
    \* ---- one call of ListISCSITargetsByTargetPortalWithFilters
    ppc,             \* where the call is
    pInstances,      \* what the MSFT_iSCSITarget query finds
    pPortals,        \* the argument portals
    pRows,           \* the rows of MSFT_iSCSITargetToiSCSITargetPortal
    pMapping,        \* the local variable targetToTargetPortalMapping
    pTargetInstances, \* the local variable targetInstances
    pTargets,        \* the list the call returned
    pErr,            \* the error the call returned
    \* ---- one call of ListDisksByTarget
    kpc,             \* where the call is
    kTarget,         \* the argument target
    wmiConnections,  \* what the MSFT_iSCSIConnection query finds
    wmiConnectionMapping, \* what ListISCSIConnectionToISCSITargetMapping finds
    wmiDisks,        \* what ListDisks finds
    wmiDiskMapping,  \* what ListDiskToISCSIConnectionMapping finds
    connectionInstances,        \* the local variables of the call
    connectionToTargetMapping,
    connectionsToTarget,
    disks,
    diskInstances,
    diskToConnectionMapping,
    filtered,
    filteredDisks,   \* the list the call returned
    kErr,            \* the error the call returned
    kSteps           \* the steps the call has made, in order

serverVars == <<versionedAPIs, started, mutex, grpcServers, listeners, doneChan,
                doneChanClosed, listeningChan, pc, index, doneCount, errs,
                listenErr, result, stopCalls, gpc, gerr, passed, ownStops,
                stopsDone, everStopped, recvFrom, listenFailed>>
waitVars == <<wpc, wState, wRet, wElapsed, wTick, wChecks, wTransitions,
              wActive, wTrace, wFirst, wLast, wResults, wTransErr, wTimers,
              wLate>>
depVars == <<dpc, dRoot, dGraph, dActive, servicesToCheck, checkIndex,
             serviceNames, servicesByName, dErr, dLookups>>
stopVars == <<spc, sName, sForce, sDependentRunning, sErr, sNames, sNext, sRet,
              sStops, sGetDeps, sRootState>>
startVars == <<tpc, tRun, tRet>>
portalVars == <<ppc, pInstances, pPortals, pRows, pMapping, pTargetInstances,
                pTargets, pErr>>
diskInputs == <<kTarget, wmiConnections, wmiConnectionMapping, wmiDisks,
                wmiDiskMapping>>
diskLocals == <<connectionInstances, connectionToTargetMapping,
                connectionsToTarget, disks, diskInstances,
                diskToConnectionMapping, filtered>>
diskVars == <<kpc, diskInputs, diskLocals, filteredDisks, kErr, kSteps>>
cimVars == <<portalVars, diskVars>>
apiVars == <<depVars, stopVars, startVars, cimVars>>
\* What a call of one kind leaves alone.
notDepVars == <<serverVars, waitVars, stopVars, startVars, cimVars>>
notStopVars == <<serverVars, waitVars, depVars, startVars, cimVars>>
notStartVars == <<serverVars, waitVars, depVars, stopVars, cimVars>>
notPortalVars == <<serverVars, waitVars, depVars, stopVars, startVars,
                   diskVars>>
notDiskVars == <<serverVars, waitVars, depVars, stopVars, startVars,
                 portalVars>>
vars == <<serverVars, waitVars, apiVars>>

APIs == 1..versionedAPIs
AllAPIs == 1..(MaxAPIs + 1)

\* ------------------------------------------------------------ the mutex
\* A lock that does not wait for its holder.
LockIgnoresHolder(p) == TRUE
\* sync.Mutex.Lock returns only when no goroutine holds the mutex.
CanLock(p) == mutex = "free"

\* ---------------------------------------------------------------- Start
\* A startListening that does not look at the flag.
NeverAlreadyStarted == FALSE
\* startListening's test of the flag, server.go:74.
AlreadyStarted == started

\* A createListeners without its closing loop (server.go:120-127).
CreateListenersLeavesOpen(failing) ==
    [i \in AllAPIs |-> IF i \in APIs /\ i \notin failing THEN "open" ELSE "nil"]
\* The states of the named pipes after createListeners, server.go:106-130:
\* a pipe whose ListenPipe failed (i \in failing) has no listener; the
\* others are open, and are closed again when anything failed.
CreateListenersResult(failing) ==
    [i \in AllAPIs |->
        IF i \in APIs /\ i \notin failing
        THEN (IF failing # {} THEN "closed" ELSE "open")
        ELSE "nil"]

\* The errors of createListeners, in index order: one per failing pipe.
RECURSIVE ListenErrors(_, _)
ListenErrors(failing, i) ==
    IF i > versionedAPIs THEN <<>>
    ELSE (IF i \in failing THEN <<i>> ELSE <<>>) \o ListenErrors(failing, i + 1)

\* A test that also fails a Server without endpoints.
ListenFailsWithoutEndpoints(errors) == Len(errors) # 0 \/ versionedAPIs = 0
\* len(ListenErr) != 0, server.go:80 and :57.
ListenFails(errors) == Len(errors) # 0

\* Start is called: startListening waits for the mutex (server.go:71).
StartCall(p) ==
    /\ pc[p] = "idle"
    /\ CanLock(p)
    /\ mutex' = p
    /\ pc' = [pc EXCEPT ![p] = "check"]
    /\ UNCHANGED <<versionedAPIs, started, grpcServers, listeners, doneChan,
                   doneChanClosed, listeningChan, index, doneCount, errs,
                   listenErr, result, stopCalls, gpc, gerr, passed, ownStops,
                   stopsDone, everStopped, recvFrom, listenFailed,
                   waitVars, apiVars>>

\* A startListening that forgets to set the flag.
StartedLeftUnset == FALSE
\* s.started = true, server.go:77.
StartedAfterCheck == TRUE

\* server.go:74-77, and for a second Start the return at :75 and :57-58.
CheckStarted(p) ==
    /\ pc[p] = "check"
    /\ IF AlreadyStarted
       THEN /\ result' = [result EXCEPT ![p] = "AlreadyStarted"]
            /\ mutex' = "free"
            /\ pc' = [pc EXCEPT ![p] = "done"]
            /\ UNCHANGED <<started, passed>>
       ELSE /\ started' = StartedAfterCheck
            /\ passed' = passed \cup {p}
            /\ pc' = [pc EXCEPT ![p] = "listen"]
            /\ UNCHANGED <<result, mutex>>
    /\ UNCHANGED <<versionedAPIs, grpcServers, listeners, doneChan,
                   doneChanClosed, listeningChan, index, doneCount, errs,
                   listenErr, stopCalls, gpc, gerr, ownStops, stopsDone,
                   everStopped, recvFrom, listenFailed,
                   waitVars, apiVars>>

\* createListeners (server.go:106-130) and startListening's :79-82: the
\* pipes in `failing` cannot be created.
CreateListeners(p) ==
    /\ pc[p] = "listen"
    /\ \E failing \in SUBSET APIs :
        /\ listeners' = CreateListenersResult(failing)
        /\ listenFailed' = failing
        /\ listenErr' = [listenErr EXCEPT ![p] = ListenErrors(failing, 1)]
        /\ IF ListenFails(ListenErrors(failing, 1))
           THEN /\ result' = [result EXCEPT ![p] = "ListenErr"]
                /\ mutex' = "free"
                /\ pc' = [pc EXCEPT ![p] = "done"]
                /\ UNCHANGED <<doneChan, grpcServers, index>>
           ELSE \* createAndStartGRPCServers, server.go:139-140
                /\ doneChan' = <<>>
                /\ grpcServers' = [i \in AllAPIs |-> "nil"]
                /\ index' = [index EXCEPT ![p] = 1]
                /\ pc' = [pc EXCEPT ![p] = "servers"]
                /\ UNCHANGED <<result, mutex>>
    /\ UNCHANGED <<versionedAPIs, started, doneChanClosed, listeningChan,
                   doneCount, errs, stopCalls, gpc, gerr, passed, ownStops,
                   stopsDone, everStopped, recvFrom,
                   waitVars, apiVars>>

\* One iteration of createAndStartGRPCServers' loop (server.go:144-175):
\* the server is created and its serve goroutine is launched.
CreateServer(p) ==
    /\ pc[p] = "servers"
    /\ index[p] <= versionedAPIs
    /\ grpcServers' = [grpcServers EXCEPT ![index[p]] = "created"]
    /\ gpc' = [gpc EXCEPT ![index[p]] = "spawned"]
    /\ index' = [index EXCEPT ![p] = index[p] + 1]
    /\ UNCHANGED <<versionedAPIs, started, mutex, listeners, doneChan,
                   doneChanClosed, listeningChan, pc, doneCount, errs,
                   listenErr, result, stopCalls, gerr, passed, ownStops,
                   stopsDone, everStopped, recvFrom, listenFailed,
                   waitVars, apiVars>>

\* createAndStartGRPCServers and startListening return (server.go:177, :84)
\* and the deferred Unlock runs.
StartListeningReturn(p) ==
    /\ pc[p] = "servers"
    /\ index[p] > versionedAPIs
    /\ mutex' = "free"
    /\ pc' = [pc EXCEPT ![p] = "signal"]
    /\ UNCHANGED <<versionedAPIs, started, grpcServers, listeners, doneChan,
                   doneChanClosed, listeningChan, index, doneCount, errs,
                   listenErr, result, stopCalls, gpc, gerr, passed, ownStops,
                   stopsDone, everStopped, recvFrom, listenFailed,
                   waitVars, apiVars>>

\* Start closes listeningChan (server.go:62-64).
CloseListeningChan(p) ==
    /\ pc[p] = "signal"
    /\ listeningChan' = [listeningChan EXCEPT ![p] = listeningChan[p] + 1]
    /\ pc' = [pc EXCEPT ![p] = "wait"]
    /\ UNCHANGED <<versionedAPIs, started, mutex, grpcServers, listeners,
                   doneChan, doneChanClosed, index, doneCount, errs, listenErr,
                   result, stopCalls, gpc, gerr, passed, ownStops, stopsDone,
                   everStopped, recvFrom, listenFailed,
                   waitVars, apiVars>>

\* processServerDoneEvent, server.go:181-187.
ProcessServerDoneEvent(list, event) ==
    IF event.err # "nil" THEN Append(list, event) ELSE list

\* waitForGRPCServersToStop receives the first event (server.go:190).
ReceiveFirst(p) ==
    /\ pc[p] = "wait"
    /\ doneChan # <<>>
    /\ errs' = [errs EXCEPT ![p] = ProcessServerDoneEvent(errs[p], Head(doneChan))]
    /\ doneChan' = Tail(doneChan)
    /\ recvFrom' = [recvFrom EXCEPT ![p] = recvFrom[p] \cup {Head(doneChan).index}]
    /\ doneCount' = [doneCount EXCEPT ![p] = 1]
    /\ pc' = [pc EXCEPT ![p] = "stopLock"]
    /\ UNCHANGED <<versionedAPIs, started, mutex, grpcServers, listeners,
                   doneChanClosed, listeningChan, index, listenErr, result,
                   stopCalls, gpc, gerr, passed, ownStops, stopsDone,
                   everStopped, listenFailed,
                   waitVars, apiVars>>

\* ----------------------------------------------------------------- Stop
\* The outside goroutine calls Stop.
StopCall(p) ==
    /\ p \in Stoppers
    /\ pc[p] = "idle"
    /\ stopCalls < MaxStops
    /\ stopCalls' = stopCalls + 1
    /\ pc' = [pc EXCEPT ![p] = "stopLock"]
    /\ UNCHANGED <<versionedAPIs, started, mutex, grpcServers, listeners,
                   doneChan, doneChanClosed, listeningChan, index, doneCount,
                   errs, listenErr, result, gpc, gerr, passed, ownStops,
                   stopsDone, everStopped, recvFrom, listenFailed,
                   waitVars, apiVars>>

\* Stop takes the mutex (server.go:209).
StopLock(p) ==
    /\ pc[p] = "stopLock"
    /\ CanLock(p)
    /\ mutex' = p
    /\ pc' = [pc EXCEPT ![p] = "stopBody"]
    /\ ownStops' = IF p \in Callers THEN [ownStops EXCEPT ![p] = ownStops[p] + 1]
                   ELSE ownStops
    /\ UNCHANGED <<versionedAPIs, started, grpcServers, listeners, doneChan,
                   doneChanClosed, listeningChan, index, doneCount, errs,
                   listenErr, result, stopCalls, gpc, gerr, passed, stopsDone,
                   everStopped, recvFrom, listenFailed,
                   waitVars, apiVars>>

\* A Stop that does not look at the flag.
StopRefusedNever == FALSE
\* A Stop that always finds the flag unset.
StopRefusedAlways == TRUE
\* Stop's test of the flag, server.go:212.
StopRefused == ~started

\* A Stop that stops no server.
StopServersSkipped == grpcServers
\* grpc.Server.Stop on every server of the list that is not nil
\* (server.go:216-220).
StopServers ==
    [i \in AllAPIs |-> IF grpcServers[i] # "nil" THEN "stopped" ELSE "nil"]
\* Stop closes the listener of a server that is serving.
StopListeners ==
    [i \in AllAPIs |->
        IF grpcServers[i] # "nil" /\ gpc[i] = "serving" THEN "closed"
        ELSE listeners[i]]

\* Stop's body and return (server.go:212-222); in waitForGRPCServersToStop
\* an error panics (server.go:193-196).
StopBody(p) ==
    /\ pc[p] = "stopBody"
    /\ mutex' = "free"
    /\ IF StopRefused
       THEN /\ result' = [result EXCEPT ![p] = "NotStarted"]
            /\ pc' = [pc EXCEPT ![p] = IF p \in Callers THEN "panic" ELSE "idle"]
            /\ UNCHANGED <<grpcServers, listeners, stopsDone, everStopped>>
       ELSE /\ grpcServers' = StopServers
            /\ listeners' = StopListeners
            /\ everStopped' = everStopped \cup {i \in AllAPIs : grpcServers[i] # "nil"}
            /\ stopsDone' = stopsDone + 1
            /\ result' = [result EXCEPT ![p] = IF p \in Callers THEN result[p] ELSE "nil"]
            /\ pc' = [pc EXCEPT ![p] = IF p \in Callers THEN "drain" ELSE "idle"]
    /\ UNCHANGED <<versionedAPIs, started, doneChan, doneChanClosed,
                   listeningChan, index, doneCount, errs, listenErr, stopCalls,
                   gpc, gerr, passed, ownStops, recvFrom, listenFailed,
                   waitVars, apiVars>>

\* A draining loop that never runs.
DrainDoneAtOnce(p) == TRUE
\* The draining loop's test, server.go:200.
DrainDone(p) == doneCount[p] >= versionedAPIs

\* One iteration of the draining loop (server.go:200-202).
ReceiveNext(p) ==
    /\ pc[p] = "drain"
    /\ ~DrainDone(p)
    /\ doneChan # <<>>
    /\ errs' = [errs EXCEPT ![p] = ProcessServerDoneEvent(errs[p], Head(doneChan))]
    /\ doneChan' = Tail(doneChan)
    /\ recvFrom' = [recvFrom EXCEPT ![p] = recvFrom[p] \cup {Head(doneChan).index}]
    /\ doneCount' = [doneCount EXCEPT ![p] = doneCount[p] + 1]
    /\ UNCHANGED <<versionedAPIs, started, mutex, grpcServers, listeners,
                   doneChanClosed, listeningChan, pc, index, listenErr, result,
                   stopCalls, gpc, gerr, passed, ownStops, stopsDone,
                   everStopped, listenFailed,
                   waitVars, apiVars>>

\* waitForGRPCServersToStop and Start return (server.go:204, :66) and the
\* deferred close(doneChan) runs (server.go:60).
StartReturn(p) ==
    /\ pc[p] = "drain"
    /\ DrainDone(p)
    /\ result' = [result EXCEPT ![p] = "Returned"]
    /\ doneChanClosed' = TRUE
    /\ pc' = [pc EXCEPT ![p] = "done"]
    /\ UNCHANGED <<versionedAPIs, started, mutex, grpcServers, listeners,
                   doneChan, listeningChan, index, doneCount, errs, listenErr,
                   stopCalls, gpc, gerr, passed, ownStops, stopsDone,
                   everStopped, recvFrom, listenFailed,
                   waitVars, apiVars>>

\* ----------------------------------------------------- serve goroutines
\* grpcServer.Serve is entered (server.go:168). A server that Stop has
\* already stopped closes the listener and returns ErrServerStopped.
ServeBegin(i) ==
    /\ gpc[i] = "spawned"
    /\ IF grpcServers[i] = "stopped"
       THEN /\ gerr' = [gerr EXCEPT ![i] = "ErrServerStopped"]
            /\ listeners' = [listeners EXCEPT ![i] = "closed"]
            /\ gpc' = [gpc EXCEPT ![i] = "sending"]
       ELSE /\ gpc' = [gpc EXCEPT ![i] = "serving"]
            /\ UNCHANGED <<gerr, listeners>>
    /\ UNCHANGED <<versionedAPIs, started, mutex, grpcServers, doneChan,
                   doneChanClosed, listeningChan, pc, index, doneCount, errs,
                   listenErr, result, stopCalls, passed, ownStops, stopsDone,
                   everStopped, recvFrom, listenFailed,
                   waitVars, apiVars>>

\* Serve fails: Accept on the listener returns a fatal error while the
\* server has not been stopped; Serve returns that error.
ServeFails(i) ==
    /\ gpc[i] = "serving"
    /\ grpcServers[i] # "stopped"
    /\ gerr' = [gerr EXCEPT ![i] = "AcceptError"]
    /\ listeners' = [listeners EXCEPT ![i] = "closed"]
    /\ gpc' = [gpc EXCEPT ![i] = "sending"]
    /\ UNCHANGED <<versionedAPIs, started, mutex, grpcServers, doneChan,
                   doneChanClosed, listeningChan, pc, index, doneCount, errs,
                   listenErr, result, stopCalls, passed, ownStops, stopsDone,
                   everStopped, recvFrom, listenFailed,
                   waitVars, apiVars>>

\* Serve returns nil because Stop stopped the server while it was serving.
ServeStopped(i) ==
    /\ gpc[i] = "serving"
    /\ grpcServers[i] = "stopped"
    /\ gerr' = [gerr EXCEPT ![i] = "nil"]
    /\ gpc' = [gpc EXCEPT ![i] = "sending"]
    /\ UNCHANGED <<versionedAPIs, started, mutex, grpcServers, listeners,
                   doneChan, doneChanClosed, listeningChan, pc, index,
                   doneCount, errs, listenErr, result, stopCalls, passed,
                   ownStops, stopsDone, everStopped, recvFrom, listenFailed,
                   waitVars, apiVars>>

\* The event sent on doneChan, server.go:170-173.
DoneEvent(i) == [index |-> i, err |-> gerr[i]]

\* A channel one place short of the number of servers.
DoneChanOneShort == versionedAPIs - 1
\* The capacity of doneChan, server.go:139.
DoneChanCap == versionedAPIs

\* The goroutine sends its event (server.go:170) and ends; the send waits
\* while the buffer of len(versionedAPIs) events is full.
SendDone(i) ==
    /\ gpc[i] = "sending"
    /\ Len(doneChan) < DoneChanCap
    /\ doneChan' = Append(doneChan, DoneEvent(i))
    /\ gpc' = [gpc EXCEPT ![i] = "exited"]
    /\ UNCHANGED <<versionedAPIs, started, mutex, grpcServers, listeners,
                   doneChanClosed, listeningChan, pc, index, doneCount, errs,
                   listenErr, result, stopCalls, gerr, passed, ownStops,
                   stopsDone, everStopped, recvFrom, listenFailed,
                   waitVars, apiVars>>

\* ------------------------------------------------------- specification
\* NewServer, server.go:30-49.
ServerInit ==
    /\ versionedAPIs \in 0..MaxAPIs
    /\ started = FALSE
    /\ mutex = "free"
    /\ grpcServers = [i \in AllAPIs |-> "nil"]
    /\ listeners = [i \in AllAPIs |-> "nil"]
    /\ doneChan = <<>>
    /\ doneChanClosed = FALSE
    /\ listeningChan = [p \in Callers |-> 0]
    /\ pc = [p \in Procs |-> "idle"]
    /\ index = [p \in Callers |-> 0]
    /\ doneCount = [p \in Callers |-> 0]
    /\ errs = [p \in Callers |-> <<>>]
    /\ listenErr = [p \in Callers |-> <<>>]
    /\ result = [p \in Procs |-> "none"]
    /\ stopCalls = 0
    /\ gpc = [i \in AllAPIs |-> "none"]
    /\ gerr = [i \in AllAPIs |-> "nil"]
    /\ passed = {}
    /\ ownStops = [p \in Callers |-> 0]
    /\ stopsDone = 0
    /\ everStopped = {}
    /\ recvFrom = [p \in Callers |-> {}]
    /\ listenFailed = {}

\* Before any stateCheck has returned, and before the call has.
NoOutcome == [done |-> FALSE, state |-> "", err |-> "none"]
NoReturn == [state |-> "", err |-> "none"]

\* No WaitUntilServiceState call is made.
WaitIdle ==
    /\ wpc = "off"
    /\ wState = ""
    /\ wRet = NoReturn
    /\ wElapsed = 0
    /\ wTick = FALSE
    /\ wChecks = 0
    /\ wTransitions = 0
    /\ wActive = 0
    /\ wTrace = <<>>
    /\ wFirst = NoOutcome
    /\ wLast = NoOutcome
    /\ wResults = <<>>
    /\ wTransErr = "none"
    /\ wTimers = FALSE
    /\ wLate = FALSE

\* No GetDependentsForService call is made.
DepIdle ==
    /\ dpc = "off"
    /\ dRoot = "A"
    /\ dGraph = {}
    /\ dActive = {}
    /\ servicesToCheck = <<>>
    /\ checkIndex = 0
    /\ serviceNames = <<>>
    /\ servicesByName = {}
    /\ dErr = "none"
    /\ dLookups = [s \in Services |-> 0]

\* No StopService call is made.
StopIdle ==
    /\ spc = "off"
    /\ sName = "A"
    /\ sForce = FALSE
    /\ sDependentRunning = FALSE
    /\ sErr = "none"
    /\ sNames = <<>>
    /\ sNext = 0
    /\ sRet = "none"
    /\ sStops = <<>>
    /\ sGetDeps = 0
    /\ sRootState = "none"

\* Before a run of WaitUntilServiceState is chosen.
NoRun == [first |-> NoOutcome, retVal |-> -1, callErr |-> "none",
          ending |-> "none", last |-> NoOutcome]

\* No StartService call is made.
StartIdle ==
    /\ tpc = "off"
    /\ tRun = NoRun
    /\ tRet = "none"

\* The map a mapping lister has not returned yet, and the nil map.
NoMapping == <<>>

\* No ListISCSITargetsByTargetPortalWithFilters call is made.
PortalIdle ==
    /\ ppc = "off"
    /\ pInstances = <<>>
    /\ pPortals = <<>>
    /\ pRows = <<>>
    /\ pMapping = NoMapping
    /\ pTargetInstances = <<>>
    /\ pTargets = <<>>
    /\ pErr = "none"

\* The target of a call that is not made.
NoInstance == [id |-> 0, key |-> ""]

\* No ListDisksByTarget call is made.
DiskIdle ==
    /\ kpc = "off"
    /\ kTarget = NoInstance
    /\ wmiConnections = <<>>
    /\ wmiConnectionMapping = NoMapping
    /\ wmiDisks = <<>>
    /\ wmiDiskMapping = NoMapping
    /\ connectionInstances = <<>>
    /\ connectionToTargetMapping = NoMapping
    /\ connectionsToTarget = <<>>
    /\ disks = <<>>
    /\ diskInstances = <<>>
    /\ diskToConnectionMapping = NoMapping
    /\ filtered = <<>>
    /\ filteredDisks = <<>>
    /\ kErr = "none"
    /\ kSteps = <<>>

\* No call into package cim is made.
CimIdle == PortalIdle /\ DiskIdle

\* No call into the lifecycle controller or into package cim is made.
ApiIdle == DepIdle /\ StopIdle /\ StartIdle /\ CimIdle

\* A Server after NewServer, and no call into the lifecycle controller.
ServerSpecInit == ServerInit /\ WaitIdle /\ ApiIdle

CallerStep(p) ==
    \/ CheckStarted(p)
    \/ CreateListeners(p)
    \/ CreateServer(p)
    \/ StartListeningReturn(p)
    \/ CloseListeningChan(p)
    \/ ReceiveFirst(p)
    \/ ReceiveNext(p)
    \/ StartReturn(p)

StopStep(p) == StopLock(p) \/ StopBody(p)

ServeStep(i) == ServeBegin(i) \/ ServeStopped(i) \/ SendDone(i)

ServerNext ==
    \/ \E p \in Callers : StartCall(p)
    \/ \E p \in Callers : CheckStarted(p)
    \/ \E p \in Callers : CreateListeners(p)
    \/ \E p \in Callers : CreateServer(p)
    \/ \E p \in Callers : StartListeningReturn(p)
    \/ \E p \in Callers : CloseListeningChan(p)
    \/ \E p \in Callers : ReceiveFirst(p)
    \/ \E p \in Callers : ReceiveNext(p)
    \/ \E p \in Callers : StartReturn(p)
    \/ \E p \in Stoppers : StopCall(p)
    \/ \E p \in Procs : StopLock(p)
    \/ \E p \in Procs : StopBody(p)
    \/ \E i \in APIs : ServeBegin(i)
    \/ \E i \in APIs : ServeStopped(i)
    \/ \E i \in APIs : SendDone(i)
    \/ \E i \in APIs : ServeFails(i)

ServerSpec == ServerSpecInit /\ [][ServerNext]_vars

\* Start and Stop calls run to completion once made, and so do the serve
\* goroutines; whether anybody calls Start or Stop, and whether a listener
\* fails, is up to the environment.
ServerFairness ==
    /\ \A p \in Callers : WF_vars(CallerStep(p))
    /\ \A p \in Procs : WF_vars(StopStep(p))
    /\ \A i \in AllAPIs : WF_vars(i \in APIs /\ ServeStep(i))

ServerLiveSpec == ServerSpec /\ ServerFairness

\* ------------------------------------------------- properties of Server
Range(seq) == {seq[k] : k \in 1..Len(seq)}

\* C1: at most one Start passes the started check, and it takes the flag
\* from false to true; every other Start returns "already started" and its
\* steps leave listeners, servers, serve goroutines and channels alone.
C1_StartOnce ==
    [][ /\ Cardinality(passed') <= 1
        /\ \A p \in Callers :
            /\ (p \in passed' /\ p \notin passed) => (~started /\ started')
            /\ (pc'[p] # pc[p] /\ p \notin passed') =>
                /\ UNCHANGED <<started, listeners, grpcServers, gpc, gerr,
                               doneChan, doneChanClosed, listeningChan>>
                /\ (pc'[p] = "done" => result'[p] = "AlreadyStarted")
      ]_vars

C1_Witness ==
    \E p, q \in Callers :
        /\ p \in passed
        /\ result[q] = "AlreadyStarted"
        /\ versionedAPIs = MaxAPIs
        /\ \A i \in APIs : gpc[i] = "serving" /\ listeners[i] = "open"

\* C2: listener creation is all-or-nothing. When some ListenPipe failed,
\* Start returns one error per failing endpoint, every listener that was
\* created is closed and nothing is served; when none failed every endpoint
\* has a listener.
C2_AllOrNothing ==
    \A p \in Callers :
        (p \in passed /\ pc[p] \notin {"check", "listen"}) =>
            IF listenFailed # {}
            THEN /\ pc[p] = "done"
                 /\ result[p] = "ListenErr"
                 /\ listenErr[p] # <<>>
                 /\ Len(listenErr[p]) = Cardinality(listenFailed)
                 /\ Range(listenErr[p]) = listenFailed
                 /\ \A i \in APIs \ listenFailed : listeners[i] = "closed"
                 /\ \A i \in AllAPIs : listeners[i] # "open"
                 /\ \A i \in AllAPIs : gpc[i] = "none" /\ grpcServers[i] = "nil"
            ELSE /\ listenErr[p] = <<>>
                 /\ \A i \in APIs : listeners[i] # "nil"

C2_Witness ==
    \E p \in Callers :
        /\ result[p] = "ListenErr"
        /\ \E i, j \in APIs : i \in listenFailed /\ listeners[j] = "closed"

\* C3: Stop is not called by waitForGRPCServersToStop before the first
\* event has been received, it is called exactly once after it, and Start
\* returns only when an event of every endpoint has been received and no
\* serve goroutine is left.
C3_ShutdownOrdering ==
    \A p \in Callers :
        /\ ownStops[p] >= 1 => doneCount[p] >= 1
        /\ ownStops[p] <= 1
        /\ pc[p] = "drain" => ownStops[p] = 1
        /\ result[p] = "Returned" =>
            /\ ownStops[p] = 1
            /\ doneCount[p] = versionedAPIs
            /\ recvFrom[p] = APIs
            /\ \A i \in APIs : gpc[i] = "exited"

C3_Witness ==
    \E p \in Callers :
        /\ result[p] = "Returned"
        /\ versionedAPIs = MaxAPIs
        /\ stopCalls = 0

\* A serve loop has ended, or a Stop has gone through, on a server with at
\* least one endpoint.
ShutdownTriggered ==
    /\ versionedAPIs >= 1
    /\ \/ \E i \in APIs : gpc[i] \in {"sending", "exited"}
       \/ stopsDone >= 1

ShutdownComplete ==
    /\ \A p \in passed : pc[p] = "done"
    /\ \A i \in APIs : gpc[i] \in {"none", "exited"}

\* C4: with at least one endpoint, once a serve loop has ended or a Stop
\* has gone through, every serve loop eventually ends and the Start that
\* passed eventually returns.
C4_ShutdownLiveness == ShutdownTriggered ~> ShutdownComplete

C4_Witness ==
    /\ versionedAPIs = MaxAPIs
    /\ \E p \in Callers : result[p] = "Returned"
    /\ result["x"] = "nil"
    /\ \A i \in APIs : gerr[i] = "nil"

\* C5: the list Start returns holds exactly one entry for every endpoint
\* whose Serve failed, under its own index, and none for an endpoint that
\* ended only because Stop reached it, also when Stop reached it before its
\* Serve call began.
C5_ErrorAggregation ==
    \A p \in Callers :
        result[p] = "Returned" =>
            /\ Len(errs[p]) = Cardinality({i \in APIs : gerr[i] = "AcceptError"})
            /\ \A k \in 1..Len(errs[p]) :
                /\ errs[p][k].err = "AcceptError"
                /\ gerr[errs[p][k].index] = "AcceptError"
            /\ \A i \in APIs :
                gerr[i] = "AcceptError" => \E k \in 1..Len(errs[p]) : errs[p][k].index = i

\* C6: a Stop that finds the server not started returns "not started" and
\* changes nothing, so that a later Start still passes; a Stop returns nil
\* only when the server is started.
C6_StopNotStarted ==
    [][ \A p \in Procs :
          (pc[p] = "stopBody" /\ pc'[p] # "stopBody") =>
              IF ~started
              THEN /\ result'[p] = "NotStarted"
                   /\ stopsDone' = stopsDone
                   /\ UNCHANGED <<started, grpcServers, listeners, gpc, gerr,
                                  doneChan, doneChanClosed, listeningChan, passed>>
              ELSE /\ result'[p] # "NotStarted"
                   /\ stopsDone' = stopsDone + 1
      ]_vars

C6_Witness ==
    /\ result["x"] = "NotStarted"
    /\ stopsDone = 0
    /\ \E p \in Callers : p \in passed /\ pc[p] = "wait"

\* The part of Start that runs under the mutex.
InStartPhase(p) == pc[p] \in {"check", "listen", "servers"}

PartlyBuilt ==
    /\ \E i \in APIs : grpcServers[i] # "nil"
    /\ \E i \in APIs : grpcServers[i] = "nil"

StopExcludesStart ==
    \A p \in Procs :
        pc[p] = "stopBody" =>
            /\ mutex = p
            /\ \A q \in Callers : ~InStartPhase(q)
            /\ ~PartlyBuilt

LaterStopsChangeNothing ==
    \A p \in Procs :
        (stopsDone >= 1 /\ pc[p] = "stopBody" /\ pc'[p] # "stopBody") =>
            /\ stopsDone' = stopsDone + 1
            /\ result'[p] # "NotStarted"
            /\ pc'[p] # "panic"
            /\ UNCHANGED <<started, grpcServers, listeners, gpc, gerr,
                           doneChan, doneChanClosed>>

StartDrained ==
    \A p \in passed :
        /\ pc[p] = "done"
        /\ result[p] = "Returned" => recvFrom[p] = APIs

\* C7 as stated, for every number of endpoints: Stop and the start phase
\* exclude each other, so Stop never sees a partly built server list; a
\* Stop after the first successful one returns nil and changes nothing;
\* and once a Stop from outside has gone through, the Start that passed
\* receives the event of every endpoint and returns.
C7_StopAnyTime_Original ==
    /\ []StopExcludesStart
    /\ [][LaterStopsChangeNothing]_vars
    /\ (result["x"] = "nil") ~> StartDrained

\* C7, for a server with at least one endpoint: Stop and the start phase
\* exclude each other, so Stop never sees a partly built server list; a
\* Stop after the first successful one returns nil and changes nothing;
\* and once a Stop from outside has gone through, the Start that passed
\* receives the event of every endpoint and returns.
C7_StopAnyTime ==
    /\ []StopExcludesStart
    /\ [][LaterStopsChangeNothing]_vars
    /\ (versionedAPIs >= 1 /\ result["x"] = "nil") ~> StartDrained

C7_Witness ==
    /\ versionedAPIs = MaxAPIs
    /\ stopCalls = MaxStops
    /\ stopsDone = MaxStops + 1
    /\ \E p \in Callers : result[p] = "Returned" /\ recvFrom[p] = APIs

\* C8: listeningChan is closed at most once, by a Start that did not fail,
\* when every endpoint has a listener and before any serve goroutine has
\* been launched.
C8_ListeningSignal ==
    [][ \A p \in Callers :
          listeningChan'[p] # listeningChan[p] =>
              /\ \A q \in Callers : listeningChan[q] = 0
              /\ p \in passed /\ listenErr[p] = <<>>
              /\ \A i \in APIs : listeners[i] # "nil"
              /\ \A i \in APIs : gpc[i] = "none"
      ]_vars

\* C26: every serve goroutine sends one event carrying its own index; a
\* send never waits, so no serve goroutine is left blocked; the Start that
\* passed receives one event of every endpoint; doneChan is closed only
\* after all of them were received, when no goroutine is left to send.
C26_DoneChanDiscipline ==
    /\ \A k \in 1..Len(doneChan) :
        /\ doneChan[k].index \in APIs
        /\ gpc[doneChan[k].index] = "exited"
        /\ \A j \in 1..Len(doneChan) :
               doneChan[j].index = doneChan[k].index => j = k
    /\ \A i \in APIs : gpc[i] = "sending" => ENABLED SendDone(i)
    /\ \A p \in passed :
        /\ doneCount[p] + Len(doneChan) =
               Cardinality({i \in APIs : gpc[i] = "exited"})
        /\ Cardinality(recvFrom[p]) = doneCount[p]
        /\ \A k \in 1..Len(doneChan) : doneChan[k].index \notin recvFrom[p]
    /\ doneChanClosed =>
        /\ doneChan = <<>>
        /\ \A i \in APIs : gpc[i] = "exited"
        /\ \E p \in passed :
               doneCount[p] = versionedAPIs /\ recvFrom[p] = APIs
    /\ \A p \in Callers \ passed : doneCount[p] = 0 /\ recvFrom[p] = {}

C26_Witness ==
    /\ versionedAPIs = MaxAPIs
    /\ Len(doneChan) = versionedAPIs
    /\ \A p \in Callers : doneCount[p] = 0

\* Start is inside waitForGRPCServersToStop.
InWaitForServers(p) == pc[p] \in {"wait", "stopLock", "stopBody", "drain"}

\* C27: the Stop that waitForGRPCServersToStop calls never fails, so its
\* panic is never reached: whenever waitForGRPCServersToStop runs the
\* started flag is set, and nothing ever resets the flag.
C27_StopCannotFail ==
    /\ [](\A p \in Callers :
            /\ pc[p] # "panic"
            /\ InWaitForServers(p) => started)
    /\ [][started => started']_vars

C27_Witness ==
    \E p \in Callers :
        /\ pc[p] = "drain"
        /\ ownStops[p] = 1
        /\ started
        /\ stopsDone = 1

\* C30: once a Start has failed in listener creation the flag stays set:
\* every Start that tests it afterwards returns "already started", and
\* every Stop that goes through afterwards returns nil, finds no server to
\* stop and leaves no listener open.
C30_FailedStartStaysStarted ==
    [][ (\E p \in Callers : result[p] = "ListenErr") =>
          /\ started /\ started'
          /\ \A q \in Callers :
                 (pc[q] = "check" /\ pc'[q] # "check") =>
                     (pc'[q] = "done" /\ result'[q] = "AlreadyStarted")
          /\ \A x \in Stoppers :
                 (pc[x] = "stopBody" /\ pc'[x] # "stopBody") =>
                     /\ result'[x] = "nil"
                     /\ \A i \in AllAPIs :
                            grpcServers[i] = "nil" /\ listeners'[i] # "open"
                     /\ UNCHANGED <<grpcServers, listeners, gpc>>
      ]_vars

C30_Witness ==
    \E p, q \in Callers :
        /\ result[p] = "ListenErr"
        /\ result[q] = "AlreadyStarted"
        /\ \E x \in Stoppers : result[x] = "nil" /\ pc[x] = "idle"
        /\ started

\* ------------------------------------------- WaitUntilServiceState
\* What a stateCheckFunc may return (api.go:29): done, the state and an
\* error; the service handle is left out. "Paused" stands for every state
\* that is neither Running nor Stopped.
ServiceStates == {"Running", "Stopped", "Paused"}
CheckOutcomes ==
    [done : BOOLEAN, state : ServiceStates \cup {""}, err : {"nil", "CheckError"}]

wHistory == <<wChecks, wTransitions, wActive, wTrace, wFirst, wLast, wResults,
              wTransErr, wTimers>>

\* What wResults keeps of a stateCheck that returned o.
ResultOf(kind, o) == [kind |-> kind, done |-> o.done, err |-> o.err]

\* stateCheck is invoked for the first time (api.go:295).
FirstCheckBegin ==
    /\ wpc = "start"
    /\ wpc' = "check"
    /\ wChecks' = wChecks + 1
    /\ wActive' = wActive + 1
    /\ wTrace' = Append(wTrace, "check")
    /\ UNCHANGED <<wState, wRet, wElapsed, wTick, wTransitions, wFirst, wLast,
                   wResults, wTransErr, wTimers, wLate>>
    /\ UNCHANGED <<serverVars, apiVars>>

\* A first check whose done is not looked at.
FirstCheckReturnsOnErrorOnly(o) == o.err # "nil"
\* Whether the call returns right after the first check (api.go:296-301).
FirstCheckReturns(o) == o.err # "nil" \/ o.done

\* The first stateCheck returns o (api.go:295-301).
FirstCheckEnd ==
    /\ wpc = "check"
    /\ \E o \in CheckOutcomes :
        /\ wState' = o.state
        /\ wFirst' = o
        /\ wLast' = o
        /\ wResults' = Append(wResults, ResultOf("check", o))
        /\ IF FirstCheckReturns(o)
           THEN /\ wRet' = [state |-> o.state, err |-> o.err]
                /\ wpc' = "returned"
           ELSE /\ wpc' = "transition"
                /\ UNCHANGED wRet
    /\ wActive' = wActive - 1
    /\ UNCHANGED <<wElapsed, wTick, wChecks, wTransitions, wTrace, wTransErr,
                   wTimers, wLate>>
    /\ UNCHANGED <<serverVars, apiVars>>

\* A stateTransition whose error is not looked at.
TransitionErrorIgnored(failed) == FALSE
\* Whether the call returns right after stateTransition (api.go:304-306).
TransitionReturns(failed) == failed

\* stateTransition is invoked (api.go:304-306); when it succeeds the ticker
\* and the timer are made (api.go:308-311).
Transition ==
    /\ wpc = "transition"
    /\ wTransitions' = wTransitions + 1
    /\ wTrace' = Append(wTrace, "transition")
    /\ \E failed \in BOOLEAN :
        /\ wTransErr' = IF failed THEN "TransitionError" ELSE "nil"
        /\ IF TransitionReturns(failed)
           THEN /\ wRet' = [state |-> wState, err |-> "TransitionError"]
                /\ wpc' = "returned"
                /\ UNCHANGED wTimers
           ELSE /\ wpc' = "select"
                /\ wTimers' = TRUE
                /\ UNCHANGED wRet
    /\ wElapsed' = 0
    /\ wTick' = FALSE
    /\ UNCHANGED <<wState, wChecks, wActive, wFirst, wLast, wResults, wLate>>
    /\ UNCHANGED <<serverVars, apiVars>>

\* A timer that never delivers.
TimeoutNever == FALSE
\* time.After(timeout) has delivered (api.go:311).
TimeoutReady == wElapsed >= WTimeout

\* One time unit passes while the call waits in select or in a stateCheck;
\* the ticker puts a tick into its channel at every multiple of the
\* interval, unless one is still there.
TimePasses ==
    /\ wpc \in {"select", "poll", "final"}
    /\ wElapsed < WTimeout + WSlack
    /\ wElapsed' = wElapsed + 1
    /\ wTick' = (wTick \/ (wElapsed' % WInterval = 0))
    /\ wLate' = (wLate \/ wpc \in {"poll", "final"} \/ wTick \/ TimeoutReady)
    /\ UNCHANGED <<wpc, wState, wRet, wHistory>>
    /\ UNCHANGED <<serverVars, apiVars>>

\* select takes the tick and invokes stateCheck (api.go:315-316).
PollBegin ==
    /\ wpc = "select"
    /\ wTick
    /\ wTick' = FALSE
    /\ wpc' = "poll"
    /\ wChecks' = wChecks + 1
    /\ wActive' = wActive + 1
    /\ wTrace' = Append(wTrace, "poll")
    /\ UNCHANGED <<wState, wRet, wElapsed, wTransitions, wFirst, wLast,
                   wResults, wTransErr, wTimers, wLate>>
    /\ UNCHANGED <<serverVars, apiVars>>

\* A loop that invokes stateTransition again on every round.
PollNextTransitionsAgain == "transition"
\* Where the loop goes on after a poll that is neither done nor failed
\* (api.go:313).
PollNext == "select"

\* A poll whose error is not looked at.
PollNeverFails(o) == FALSE
\* Whether a polling stateCheck ends the call with "check failed"
\* (api.go:317-319).
PollFails(o) == o.err # "nil"

\* The polling stateCheck returns o (api.go:316-322).
PollEnd ==
    /\ wpc = "poll"
    /\ \E o \in CheckOutcomes :
        /\ wState' = o.state
        /\ wLast' = o
        /\ wResults' = Append(wResults, ResultOf("poll", o))
        /\ IF PollFails(o)
           THEN /\ wRet' = [state |-> o.state, err |-> "CheckFailed"]
                /\ wpc' = "returned"
           ELSE IF o.done
                THEN /\ wRet' = [state |-> o.state, err |-> "nil"]
                     /\ wpc' = "returned"
                ELSE /\ wpc' = PollNext
                     /\ UNCHANGED wRet
    /\ wActive' = wActive - 1
    /\ UNCHANGED <<wElapsed, wTick, wChecks, wTransitions, wTrace, wFirst,
                   wTransErr, wTimers, wLate>>
    /\ UNCHANGED <<serverVars, apiVars>>

\* select takes the timeout and invokes stateCheck (api.go:323-324).
FinalCheckBegin ==
    /\ wpc = "select"
    /\ TimeoutReady
    /\ wpc' = "final"
    /\ wChecks' = wChecks + 1
    /\ wActive' = wActive + 1
    /\ wTrace' = Append(wTrace, "final")
    /\ UNCHANGED <<wState, wRet, wElapsed, wTick, wTransitions, wFirst, wLast,
                   wResults, wTransErr, wTimers, wLate>>
    /\ UNCHANGED <<serverVars, apiVars>>

\* A final check whose state is thrown away.
FinalStateStale(o) == wState
\* The state the final stateCheck assigns (api.go:324).
FinalState(o) == o.state

\* The final stateCheck returns o; its error is dropped (api.go:324-325).
FinalCheckEnd ==
    /\ wpc = "final"
    /\ \E o \in CheckOutcomes :
        /\ wState' = FinalState(o)
        /\ wLast' = o
        /\ wResults' = Append(wResults, ResultOf("final", o))
        /\ wRet' = [state |-> FinalState(o), err |-> "Timedout"]
    /\ wpc' = "returned"
    /\ wActive' = wActive - 1
    /\ UNCHANGED <<wElapsed, wTick, wChecks, wTransitions, wTrace, wFirst,
                   wTransErr, wTimers, wLate>>
    /\ UNCHANGED <<serverVars, apiVars>>

\* WaitUntilServiceState is called.
WaitInit ==
    /\ wpc = "start"
    /\ wState = ""
    /\ wRet = NoReturn
    /\ wElapsed = 0
    /\ wTick = FALSE
    /\ wChecks = 0
    /\ wTransitions = 0
    /\ wActive = 0
    /\ wTrace = <<>>
    /\ wFirst = NoOutcome
    /\ wLast = NoOutcome
    /\ wResults = <<>>
    /\ wTransErr = "none"
    /\ wTimers = FALSE
    /\ wLate = FALSE

WaitNext ==
    \/ FirstCheckBegin
    \/ FirstCheckEnd
    \/ Transition
    \/ TimePasses
    \/ PollBegin
    \/ PollEnd
    \/ FinalCheckBegin
    \/ FinalCheckEnd

\* A WaitUntilServiceState call, beside a Server nobody uses.
WaitSpecInit == WaitInit /\ ServerInit /\ versionedAPIs = 0 /\ ApiIdle

WaitSpec == WaitSpecInit /\ [][WaitNext]_vars

\* The goroutine running the call keeps being scheduled and the clock keeps
\* advancing while a timer is pending.
WaitFairness == WF_vars(WaitNext)

WaitLiveSpec == WaitSpec /\ WaitFairness

\* ------------------------------------------- GetDependentsForService
\* What service.GetDependents() finds for s.
Dependents(s) == {d \in Services : <<s, d>> \in dGraph}

\* The orders in which GetDependents may list the services of S.
Orders(S) ==
    {q \in [1..Cardinality(S) -> S] : {q[k] : k \in 1..Cardinality(S)} = S}

\* A state test that lets every service through.
IsRunningAlways(s) == TRUE
\* currentState == serviceStateRunning (api.go:351-358).
IsRunning(s) == s \in dActive

\* A name put at the end of the list.
PutLast(name, names) == Append(names, name)
\* append([]string{serviceName}, serviceNames...) (api.go:362).
PutFirst(name, names) == <<name>> \o names

\* The call is followed for as long as servicesToCheck, after the dependents
\* of the service at i are appended, is no longer than MaxQueue.
QueueFits(service) ==
    IsRunning(service) =>
        Len(servicesToCheck) + Cardinality(Dependents(service)) <= MaxQueue

\* GetService(name) and the first append (api.go:335-341).
GetDependentsBegin ==
    /\ dpc = "start"
    /\ \E ok \in BOOLEAN :
        IF ok
        THEN /\ servicesToCheck' = <<dRoot>>
             /\ dpc' = "loop"
             /\ UNCHANGED dErr
        ELSE /\ dErr' = "GetServiceError"
             /\ dpc' = "returned"
             /\ UNCHANGED servicesToCheck
    /\ UNCHANGED <<dRoot, dGraph, dActive, checkIndex, serviceNames,
                   servicesByName, dLookups>>
    /\ UNCHANGED notDepVars

\* One pass through the loop body (api.go:342-370): the service at i is
\* taken, i is advanced, and the service is skipped, or recorded and
\* expanded, or one of its three queries fails and the call returns.
GetDependentsIterate ==
    /\ dpc = "loop"
    /\ checkIndex < Len(servicesToCheck)
    /\ QueueFits(servicesToCheck[checkIndex + 1])
    /\ checkIndex' = checkIndex + 1
    /\ LET service == servicesToCheck[checkIndex + 1] IN
       \E failure \in {"nil", "GetPropertyNameError", "GetPropertyStateError",
                       "GetDependentsError"} :
           IF failure \in {"GetPropertyNameError", "GetPropertyStateError"}
           THEN /\ dErr' = failure
                /\ dpc' = "returned"
                /\ UNCHANGED <<servicesToCheck, serviceNames, servicesByName,
                               dLookups>>
           ELSE IF ~IsRunning(service)
           THEN /\ failure = "nil"
                /\ UNCHANGED <<dpc, dErr, servicesToCheck, serviceNames,
                               servicesByName, dLookups>>
           ELSE /\ servicesByName' = servicesByName \cup {service}
                /\ serviceNames' = PutFirst(service, serviceNames)
                /\ dLookups' = [dLookups EXCEPT ![service] = @ + 1]
                /\ IF failure = "GetDependentsError"
                   THEN /\ dErr' = failure
                        /\ dpc' = "returned"
                        /\ UNCHANGED servicesToCheck
                   ELSE /\ \E q \in Orders(Dependents(service)) :
                              servicesToCheck' = servicesToCheck \o q
                        /\ UNCHANGED <<dpc, dErr>>
    /\ UNCHANGED <<dRoot, dGraph, dActive>>
    /\ UNCHANGED notDepVars

\* The loop condition fails and serviceNames is returned (api.go:342, 372).
GetDependentsReturn ==
    /\ dpc = "loop"
    /\ checkIndex >= Len(servicesToCheck)
    /\ dpc' = "returned"
    /\ dErr' = "nil"
    /\ UNCHANGED <<dRoot, dGraph, dActive, servicesToCheck, checkIndex,
                   serviceNames, servicesByName, dLookups>>
    /\ UNCHANGED notDepVars

\* A call GetDependentsForService("A") on some dependency graph.
DepInit ==
    /\ dpc = "start"
    /\ dRoot = "A"
    /\ dGraph \in {g \in SUBSET (Services \X Services) :
                       Cardinality(g) <= MaxEdges}
    /\ dActive \in SUBSET Services
    /\ servicesToCheck = <<>>
    /\ checkIndex = 0
    /\ serviceNames = <<>>
    /\ servicesByName = {}
    /\ dErr = "none"
    /\ dLookups = [s \in Services |-> 0]

DepNext ==
    \/ GetDependentsBegin
    \/ GetDependentsIterate
    \/ GetDependentsReturn

\* A GetDependentsForService call, beside a Server nobody uses.
DepSpecInit ==
    /\ DepInit
    /\ ServerInit /\ versionedAPIs = 0 /\ WaitIdle /\ StopIdle /\ StartIdle
    /\ CimIdle

DepSpec == DepSpecInit /\ [][DepNext]_vars

\* The goroutine running the call keeps being scheduled.
DepFairness == WF_vars(DepNext)

DepLiveSpec == DepSpec /\ DepFairness

\* ------------------------------------------------------- StopService
\* What serviceStoppedCheck may return (api.go:207-219): an error and not
\* done when GetService or GetPropertyState fails, otherwise the state read
\* and whether it is Stopped.
StoppedCheckOutcomes ==
    {o \in CheckOutcomes :
        IF o.err = "nil"
        THEN o.state # "" /\ o.done = (o.state = "Stopped")
        ELSE ~o.done}

\* The result codes the stop method may give; 1 stands for every other code.
StopRetVals ==
    {stopServiceErrorCodeAccepted, stopServiceErrorCodeStopPending,
     stopServiceErrorCodeDependentRunning, 1}

\* How the select loop of WaitUntilServiceState ends (api.go:313-327).
LoopEndings == {"pollFailed", "pollDone", "timeout"}

\* One way a stopSingleService call may go: what the first stateCheck
\* returns, what the stop method returns, how the loop ends and what the
\* last stateCheck returns.
StopRuns ==
    {r \in [first : StoppedCheckOutcomes, retVal : StopRetVals,
            callErr : {"nil", "CallError"}, ending : LoopEndings,
            last : StoppedCheckOutcomes] :
        /\ r.ending = "pollFailed" => r.last.err # "nil"
        /\ r.ending = "pollDone" => (r.last.err = "nil" /\ r.last.done)}

\* Whether the closure stopService fails (api.go:197-205).
StopTransitionFails(r) ==
    \/ r.callErr # "nil"
    \/ r.retVal \notin {stopServiceErrorCodeAccepted,
                        stopServiceErrorCodeStopPending}

\* Whether the run r gets as far as stateTransition (api.go:295-304).
TransitionInvoked(r) == ~FirstCheckReturns(r.first)

\* What WaitUntilServiceState returns on the run r when stateTransition
\* fails or not (api.go:294-328).
WaitReturns(r, transitionFails) ==
    IF FirstCheckReturns(r.first)
    THEN [state |-> r.first.state, err |-> r.first.err]
    ELSE IF TransitionReturns(transitionFails)
    THEN [state |-> r.first.state, err |-> "TransitionError"]
    ELSE IF r.ending = "pollFailed"
    THEN [state |-> r.last.state, err |-> "CheckFailed"]
    ELSE IF r.ending = "pollDone"
    THEN [state |-> r.last.state, err |-> "nil"]
    ELSE [state |-> FinalState(r.last), err |-> "Timedout"]

\* What WaitUntilServiceState returns to stopSingleService on the run r
\* (api.go:221).
WaitResult(r) == WaitReturns(r, StopTransitionFails(r))

\* A flag raised by every failed stop.
DependentRunningOnAnyFailure(r) ==
    TransitionInvoked(r) /\ StopTransitionFails(r)
\* The value of dependentRunning after the run r (api.go:195-202).
DependentRunningAfter(r) ==
    /\ TransitionInvoked(r)
    /\ StopTransitionFails(r)
    /\ r.retVal = stopServiceErrorCodeDependentRunning

\* The error stopSingleService returns on the run r (api.go:221-230).
StopSingleErr(r) ==
    LET w == WaitResult(r) IN
    IF w.err \notin {"nil", "Timedout"} THEN "StopError"
    ELSE IF w.state # "Stopped" THEN "StopTimedOut"
    ELSE "nil"

\* What sStops keeps of a stopSingleService(name) call that went as r.
StopRecord(name, r) ==
    [name |-> name, invoked |-> TransitionInvoked(r),
     retVal |-> IF TransitionInvoked(r) THEN r.retVal ELSE -1,
     state |-> WaitResult(r).state, err |-> StopSingleErr(r)]

\* A cascade entered after every failed stop.
ReturnsFirstOnSuccessOnly(err, dependentRunning, force) == err = "nil"
\* err == nil || !dependentRunning || !force (api.go:235).
ReturnsFirst(err, dependentRunning, force) ==
    err = "nil" \/ ~dependentRunning \/ ~force

\* stopSingleService(name) and the test on its result (api.go:234-237).
StopFirst ==
    /\ spc = "start"
    /\ \E r \in StopRuns :
        /\ sDependentRunning' = DependentRunningAfter(r)
        /\ sErr' = StopSingleErr(r)
        /\ sStops' = Append(sStops, StopRecord(sName, r))
        /\ IF ReturnsFirst(sErr', sDependentRunning', sForce)
           THEN /\ sRet' = sErr'
                /\ spc' = "returned"
           ELSE /\ spc' = "resolve"
                /\ UNCHANGED sRet
    /\ UNCHANGED <<sName, sForce, sNames, sNext, sGetDeps, sRootState>>
    /\ UNCHANGED notStopVars

\* The lists GetDependentsForService(name) may return with a nil error when
\* it reads state for the named service (api.go:340-372): nothing when the
\* service is not Running, otherwise running services with the named one last.
DependentsLists(name, state) ==
    IF state # "Running"
    THEN {<<>>}
    ELSE {names \o <<name>> :
              names \in UNION {[1..n -> Services] : n \in 0..(MaxNames - 1)}}

\* GetDependentsForService(name) (api.go:239-242); it returns a list of
\* service names or fails.
StopResolve ==
    /\ spc = "resolve"
    /\ sGetDeps' = sGetDeps + 1
    /\ \/ /\ sErr' = "GetDependentsError"
          /\ sRet' = "GetDependentsFailed"
          /\ spc' = "returned"
          /\ UNCHANGED <<sNames, sRootState>>
       \/ /\ \E state \in ServiceStates :
                 /\ sRootState' = state
                 /\ sNames' \in DependentsLists(sName, state)
          /\ sErr' = "nil"
          /\ spc' = "cascade"
          /\ UNCHANGED sRet
    /\ UNCHANGED <<sName, sForce, sDependentRunning, sNext, sStops>>
    /\ UNCHANGED notStopVars

\* A loop that goes on after a failed stop.
CascadeNeverAborts(err) == FALSE
\* err != nil after stopSingleService(serviceName) (api.go:246-248).
CascadeAborts(err) == err # "nil"

\* One pass through the loop over serviceNames (api.go:244-249).
StopCascade ==
    /\ spc = "cascade"
    /\ sNext < Len(sNames)
    /\ sNext' = sNext + 1
    /\ \E r \in StopRuns :
        /\ sErr' = StopSingleErr(r)
        /\ sStops' = Append(sStops, StopRecord(sNames[sNext + 1], r))
        /\ IF CascadeAborts(sErr')
           THEN /\ sRet' = sErr'
                /\ spc' = "returned"
           ELSE UNCHANGED <<sRet, spc>>
    /\ UNCHANGED <<sName, sForce, sDependentRunning, sNames, sGetDeps,
                   sRootState>>
    /\ UNCHANGED notStopVars

\* The loop is over and nil is returned (api.go:251).
StopCascadeDone ==
    /\ spc = "cascade"
    /\ sNext >= Len(sNames)
    /\ sRet' = "nil"
    /\ spc' = "returned"
    /\ UNCHANGED <<sName, sForce, sDependentRunning, sErr, sNames, sNext,
                   sStops, sGetDeps, sRootState>>
    /\ UNCHANGED notStopVars

\* A call StopService("A", force).
StopInit ==
    /\ spc = "start"
    /\ sName = "A"
    /\ sForce \in BOOLEAN
    /\ sDependentRunning = FALSE
    /\ sErr = "none"
    /\ sNames = <<>>
    /\ sNext = 0
    /\ sRet = "none"
    /\ sStops = <<>>
    /\ sGetDeps = 0
    /\ sRootState = "none"

StopNext ==
    \/ StopFirst
    \/ StopResolve
    \/ StopCascade
    \/ StopCascadeDone

\* A StopService call, beside a Server nobody uses.
StopSpecInit ==
    /\ StopInit
    /\ ServerInit /\ versionedAPIs = 0 /\ WaitIdle /\ DepIdle /\ StartIdle
    /\ CimIdle

StopSpec == StopSpecInit /\ [][StopNext]_vars

\* ------------------------------------------------------ StartService
\* What serviceRunningCheck may return (api.go:168-180): an error and not
\* done when GetService or GetPropertyState fails, otherwise the state read
\* and whether it is Running.
RunningCheckOutcomes ==
    {o \in CheckOutcomes :
        IF o.err = "nil"
        THEN o.state # "" /\ o.done = (o.state = "Running")
        ELSE ~o.done}

\* The result codes the start method may give; 1 stands for every other code.
StartRetVals ==
    {startServiceErrorCodeAccepted, startServiceErrorCodeAlreadyRunning, 1}

\* One way the WaitUntilServiceState call of StartService may go.
StartRuns ==
    {r \in [first : RunningCheckOutcomes, retVal : StartRetVals,
            callErr : {"nil", "CallError"}, ending : LoopEndings,
            last : RunningCheckOutcomes] :
        /\ r.ending = "pollFailed" => r.last.err # "nil"
        /\ r.ending = "pollDone" => (r.last.err = "nil" /\ r.last.done)}

\* Whether the closure startService fails (api.go:161-167).
StartTransitionFails(r) ==
    \/ r.callErr # "nil"
    \/ r.retVal \notin {startServiceErrorCodeAccepted,
                        startServiceErrorCodeAlreadyRunning}

\* What WaitUntilServiceState returns to StartService on the run r
\* (api.go:182).
StartWaitResult(r) == WaitReturns(r, StartTransitionFails(r))

\* A StartService that takes every timeout for a success.
StartErrIgnoresState(w) ==
    IF w.err \notin {"nil", "Timedout"} THEN w.err ELSE "nil"
\* The error StartService returns when WaitUntilServiceState returned w
\* (api.go:183-191).
StartServiceErr(w) ==
    IF w.err \notin {"nil", "Timedout"} THEN w.err
    ELSE IF w.state # "Running" THEN "StartTimedOut"
    ELSE "nil"

\* StartService(name), from the call of WaitUntilServiceState to the return
\* (api.go:182-191).
StartServiceCall ==
    /\ tpc = "start"
    /\ tRet' = StartServiceErr(StartWaitResult(tRun))
    /\ tpc' = "returned"
    /\ UNCHANGED tRun
    /\ UNCHANGED notStartVars

\* A call StartService(name) whose WaitUntilServiceState call goes some way.
StartInit ==
    /\ tpc = "start"
    /\ tRun \in StartRuns
    /\ tRet = "none"

StartNext == StartServiceCall

\* A StartService call, beside a Server nobody uses.
StartSpecInit ==
    /\ StartInit
    /\ ServerInit /\ versionedAPIs = 0 /\ WaitIdle /\ DepIdle /\ StopIdle
    /\ CimIdle

StartSpec == StartSpecInit /\ [][StartNext]_vars

\* ------------------------------------------------ instance mappings
\* An instance is a record of its place in the list a query returned and of
\* the key its indexer extracts; "" is an instance the indexer fails on.
InstanceLists(keys) ==
    UNION {[1..n -> [id : 1..n, key : keys \cup {""}]] : n \in 0..MaxRecords}

\* The lists a query may return: the instance at place k has id k.
QueryResults(keys) ==
    {l \in InstanceLists(keys) : \A k \in 1..Len(l) : l[k].id = k}

\* The rows an association class may hold: the keys its two indexers extract.
AssociationRows(sourceKeys, targetKeys) ==
    UNION {[1..n -> [source : sourceKeys, target : targetKeys]] :
               n \in 0..MaxRows}

\* A map[string]string after m[key] = value.
MapPut(m, key, value) ==
    [k \in (DOMAIN m) \cup {key} |-> IF k = key THEN value ELSE m[k]]

\* The map[string]string ListWMIInstanceMappings returns for rows: every row
\* is put under the key of its source side, in the order listed.
RECURSIVE ListWMIInstanceMappings(_)
ListWMIInstanceMappings(rows) ==
    IF rows = <<>> THEN <<>>
    ELSE LET row == rows[Len(rows)] IN
         MapPut(ListWMIInstanceMappings(SubSeq(rows, 1, Len(rows) - 1)),
                row.source, row.target)

\* The keys of the associated instances, or the failure of their indexer.
RECURSIVE AssociatedKeys(_)
AssociatedKeys(associated) ==
    IF associated = <<>> THEN [keys |-> {}, err |-> "nil"]
    ELSE LET rest == AssociatedKeys(Tail(associated)) IN
         IF Head(associated).key = ""
         THEN [keys |-> {}, err |-> "KeyExtractionError"]
         ELSE [keys |-> rest.keys \cup {Head(associated).key}, err |-> rest.err]

\* The instances of toFind kept by the lookups, in the order of toFind, or
\* the failure of their indexer.
RECURSIVE FilterByMapping(_, _, _)
FilterByMapping(toFind, keys, mappings) ==
    IF toFind = <<>> THEN [instances |-> <<>>, err |-> "nil"]
    ELSE LET inst == Head(toFind)
             rest == FilterByMapping(Tail(toFind), keys, mappings)
         IN  IF inst.key = ""
             THEN [instances |-> <<>>, err |-> "KeyExtractionError"]
             ELSE IF rest.err # "nil" THEN rest
             ELSE IF inst.key \in DOMAIN mappings /\ mappings[inst.key] \in keys
             THEN [instances |-> <<inst>> \o rest.instances, err |-> "nil"]
             ELSE rest

\* FindInstancesByMapping(instanceToFind, indexer, associatedInstances,
\* indexer, instanceMappings): the instances to find whose key the mapping
\* takes to the key of an associated instance, or an indexer's failure.
FindInstancesByMapping(toFind, associated, mappings) ==
    LET refs == AssociatedKeys(associated) IN
    IF refs.err # "nil" THEN [instances |-> <<>>, err |-> refs.err]
    ELSE FilterByMapping(toFind, refs.keys, mappings)

\* ------------------- ListISCSITargetsByTargetPortalWithFilters
TargetKeys == {"t1", "t2"}
PortalKeys == {"p1", "p2"}

\* A loop that leaves the first portal out.
PortalInstancesButFirst(portals) ==
    IF portals = <<>> THEN <<>> ELSE Tail(portals)
\* portalInstances after the loop over portals (part_001:133-136).
PortalInstances(portals) == portals

\* The MSFT_iSCSITarget query (part_001:126-131).
PortalQuery ==
    /\ ppc = "query"
    /\ \E ok \in BOOLEAN :
        IF ok
        THEN /\ ppc' = "mapping"
             /\ UNCHANGED pErr
        ELSE /\ pErr' = "QueryError"
             /\ ppc' = "returned"
    /\ UNCHANGED <<pInstances, pPortals, pRows, pMapping, pTargetInstances,
                   pTargets>>
    /\ UNCHANGED notPortalVars

\* ListISCSITargetToISCSITargetPortalMapping (part_001:105-107, :138-141).
PortalMapping ==
    /\ ppc = "mapping"
    /\ \E ok \in BOOLEAN :
        IF ok
        THEN /\ pMapping' = ListWMIInstanceMappings(pRows)
             /\ ppc' = "find"
             /\ UNCHANGED pErr
        ELSE /\ pErr' = "AssociationQueryError"
             /\ ppc' = "returned"
             /\ UNCHANGED pMapping
    /\ UNCHANGED <<pInstances, pPortals, pRows, pTargetInstances, pTargets>>
    /\ UNCHANGED notPortalVars

\* FindInstancesByMapping over the targets and the portal instances
\* (part_001:143-146).
PortalFind ==
    /\ ppc = "find"
    /\ LET found == FindInstancesByMapping(pInstances,
                        PortalInstances(pPortals), pMapping) IN
        IF found.err = "nil"
        THEN /\ pTargetInstances' = found.instances
             /\ ppc' = "convert"
             /\ UNCHANGED pErr
        ELSE /\ pErr' = found.err
             /\ ppc' = "returned"
             /\ UNCHANGED pTargetInstances
    /\ UNCHANGED <<pInstances, pPortals, pRows, pMapping, pTargets>>
    /\ UNCHANGED notPortalVars

\* The loop that wraps every instance and the return (part_001:148-158).
PortalConvert ==
    /\ ppc = "convert"
    /\ \E ok \in BOOLEAN :
        /\ (~ok) => pTargetInstances # <<>>
        /\ IF ok
           THEN /\ pTargets' = pTargetInstances
                /\ pErr' = "nil"
           ELSE /\ pErr' = "ConvertError"
                /\ UNCHANGED pTargets
    /\ ppc' = "returned"
    /\ UNCHANGED <<pInstances, pPortals, pRows, pMapping, pTargetInstances>>
    /\ UNCHANGED notPortalVars

\* A call on some targets, portals and association rows.
PortalInit ==
    /\ ppc = "query"
    /\ pInstances \in QueryResults(TargetKeys)
    /\ pPortals \in QueryResults(PortalKeys)
    /\ pRows \in AssociationRows(TargetKeys, PortalKeys)
    /\ pMapping = NoMapping
    /\ pTargetInstances = <<>>
    /\ pTargets = <<>>
    /\ pErr = "none"

PortalNext ==
    \/ PortalQuery
    \/ PortalMapping
    \/ PortalFind
    \/ PortalConvert

\* A ListISCSITargetsByTargetPortalWithFilters call, beside a Server nobody
\* uses.
PortalSpecInit ==
    /\ PortalInit
    /\ ServerInit /\ versionedAPIs = 0 /\ WaitIdle
    /\ DepIdle /\ StopIdle /\ StartIdle /\ DiskIdle

PortalSpec == PortalSpecInit /\ [][PortalNext]_vars

\* ------------------------------------------- ListDisksByTarget
ConnectionKeys == {"c1", "c2"}
DiskKeys == {"d1", "d2"}

\* The maps a mapping lister may return.
Mappings(sourceKeys, targetKeys) ==
    UNION {[D -> targetKeys] : D \in SUBSET sourceKeys}

\* The call returns nil and err (part_001:205, :210, :215, :220, :230, :235).
DiskFail(err) ==
    /\ kErr' = err
    /\ kpc' = "returned"

\* The MSFT_iSCSIConnection query (part_001:202-206).
DiskQueryConnections ==
    /\ kpc = "queryConnections"
    /\ kSteps' = Append(kSteps, "queryConnections")
    /\ \E ok \in BOOLEAN :
        IF ok
        THEN /\ connectionInstances' = wmiConnections
             /\ kpc' = "connectionMapping"
             /\ UNCHANGED kErr
        ELSE /\ DiskFail("QueryError")
             /\ UNCHANGED connectionInstances
    /\ UNCHANGED <<diskInputs, connectionToTargetMapping, connectionsToTarget,
                   disks, diskInstances, diskToConnectionMapping, filtered,
                   filteredDisks>>
    /\ UNCHANGED notDiskVars

\* ListISCSIConnectionToISCSITargetMapping (part_001:208-211).
DiskConnectionMapping ==
    /\ kpc = "connectionMapping"
    /\ kSteps' = Append(kSteps, "connectionMapping")
    /\ \E ok \in BOOLEAN :
        IF ok
        THEN /\ connectionToTargetMapping' = wmiConnectionMapping
             /\ kpc' = "findConnections"
             /\ UNCHANGED kErr
        ELSE /\ DiskFail("AssociationQueryError")
             /\ UNCHANGED connectionToTargetMapping
    /\ UNCHANGED <<diskInputs, connectionInstances, connectionsToTarget,
                   disks, diskInstances, diskToConnectionMapping, filtered,
                   filteredDisks>>
    /\ UNCHANGED notDiskVars

\* The connections to the target (part_001:213-216).
DiskFindConnections ==
    /\ kpc = "findConnections"
    /\ kSteps' = Append(kSteps, "findConnections")
    /\ LET found == FindInstancesByMapping(connectionInstances, <<kTarget>>,
                                           connectionToTargetMapping) IN
        IF found.err = "nil"
        THEN /\ connectionsToTarget' = found.instances
             /\ kpc' = "listDisks"
             /\ UNCHANGED kErr
        ELSE /\ DiskFail(found.err)
             /\ UNCHANGED connectionsToTarget
    /\ UNCHANGED <<diskInputs, connectionInstances, connectionToTargetMapping,
                   disks, diskInstances, diskToConnectionMapping, filtered,
                   filteredDisks>>
    /\ UNCHANGED notDiskVars

\* A loop that puts every disk in front of the ones before it.
RECURSIVE DiskInstancesPrepended(_)
DiskInstancesPrepended(list) ==
    IF list = <<>> THEN <<>>
    ELSE Append(DiskInstancesPrepended(Tail(list)), Head(list))
\* diskInstances after the loop over disks (part_001:223-226).
DiskInstances(list) == list

\* ListDisks and the loop over its result (part_001:218-226).
DiskListDisks ==
    /\ kpc = "listDisks"
    /\ kSteps' = Append(kSteps, "listDisks")
    /\ \E ok \in BOOLEAN :
        IF ok
        THEN /\ disks' = wmiDisks
             /\ diskInstances' = DiskInstances(wmiDisks)
             /\ kpc' = "diskMapping"
             /\ UNCHANGED kErr
        ELSE /\ DiskFail("QueryError")
             /\ UNCHANGED <<disks, diskInstances>>
    /\ UNCHANGED <<diskInputs, connectionInstances, connectionToTargetMapping,
                   connectionsToTarget, diskToConnectionMapping, filtered,
                   filteredDisks>>
    /\ UNCHANGED notDiskVars

\* ListDiskToISCSIConnectionMapping (part_001:228-231).
DiskDiskMapping ==
    /\ kpc = "diskMapping"
    /\ kSteps' = Append(kSteps, "diskMapping")
    /\ \E ok \in BOOLEAN :
        IF ok
        THEN /\ diskToConnectionMapping' = wmiDiskMapping
             /\ kpc' = "findDisks"
             /\ UNCHANGED kErr
        ELSE /\ DiskFail("AssociationQueryError")
             /\ UNCHANGED diskToConnectionMapping
    /\ UNCHANGED <<diskInputs, connectionInstances, connectionToTargetMapping,
                   connectionsToTarget, disks, diskInstances, filtered,
                   filteredDisks>>
    /\ UNCHANGED notDiskVars

\* A second lookup against every connection the query found.
AllConnections == connectionInstances
\* The associated instances of the second lookup (part_001:233).
AssociatedConnections == connectionsToTarget

\* The disks on the connections to the target (part_001:233-236).
DiskFindDisks ==
    /\ kpc = "findDisks"
    /\ kSteps' = Append(kSteps, "findDisks")
    /\ LET found == FindInstancesByMapping(diskInstances,
                        AssociatedConnections, diskToConnectionMapping) IN
        IF found.err = "nil"
        THEN /\ filtered' = found.instances
             /\ kpc' = "convert"
             /\ UNCHANGED kErr
        ELSE /\ DiskFail(found.err)
             /\ UNCHANGED filtered
    /\ UNCHANGED <<diskInputs, connectionInstances, connectionToTargetMapping,
                   connectionsToTarget, disks, diskInstances,
                   diskToConnectionMapping, filteredDisks>>
    /\ UNCHANGED notDiskVars

\* The loop that wraps every instance and the return (part_001:238-247).
DiskConvert ==
    /\ kpc = "convert"
    /\ kSteps' = Append(kSteps, "convert")
    /\ \E ok \in BOOLEAN :
        /\ (~ok) => filtered # <<>>
        /\ IF ok
           THEN /\ filteredDisks' = filtered
                /\ kErr' = "nil"
           ELSE /\ kErr' = "ConvertError"
                /\ UNCHANGED filteredDisks
    /\ kpc' = "returned"
    /\ UNCHANGED <<diskInputs, diskLocals>>
    /\ UNCHANGED notDiskVars

\* A call on some target, with some connections, disks and mappings in WMI.
DiskInit ==
    /\ kpc = "queryConnections"
    /\ kTarget \in [id : {1}, key : TargetKeys \cup {""}]
    /\ wmiConnections \in QueryResults(ConnectionKeys)
    /\ wmiConnectionMapping \in Mappings(ConnectionKeys, TargetKeys)
    /\ wmiDisks \in QueryResults(DiskKeys)
    /\ wmiDiskMapping \in Mappings(DiskKeys, ConnectionKeys)
    /\ connectionInstances = <<>>
    /\ connectionToTargetMapping = NoMapping
    /\ connectionsToTarget = <<>>
    /\ disks = <<>>
    /\ diskInstances = <<>>
    /\ diskToConnectionMapping = NoMapping
    /\ filtered = <<>>
    /\ filteredDisks = <<>>
    /\ kErr = "none"
    /\ kSteps = <<>>

DiskNext ==
    \/ DiskQueryConnections
    \/ DiskConnectionMapping
    \/ DiskFindConnections
    \/ DiskListDisks
    \/ DiskDiskMapping
    \/ DiskFindDisks
    \/ DiskConvert

\* A ListDisksByTarget call, beside a Server nobody uses.
DiskSpecInit ==
    /\ DiskInit
    /\ ServerInit /\ versionedAPIs = 0 /\ WaitIdle
    /\ DepIdle /\ StopIdle /\ StartIdle /\ PortalIdle

DiskSpec == DiskSpecInit /\ [][DiskNext]_vars

\* C31: on a Server without endpoints a Start that gets past the started
\* check finds no listener error, closes listeningChan and then stays at the
\* first receive from doneChan for ever: no serve goroutine exists, nothing
\* is ever sent or closed, Stop calls from outside included, and Start
\* neither returns nor panics.
C31_ZeroEndpointsStartBlocks ==
    versionedAPIs = 0 =>
        /\ \A i \in AllAPIs : gpc[i] = "none"
        /\ doneChan = <<>> /\ ~doneChanClosed
        /\ \A p \in passed :
            /\ pc[p] \in {"listen", "servers", "signal", "wait"}
            /\ result[p] = "none"
            /\ listenErr[p] = <<>>
            /\ pc[p] \in {"servers", "signal", "wait"} => listenFailed = {}
            /\ listeningChan[p] = (IF pc[p] = "wait" THEN 1 ELSE 0)
            /\ pc[p] = "wait" => ~ENABLED ReceiveFirst(p)

C31_Witness ==
    /\ versionedAPIs = 0
    /\ \E p \in passed : pc[p] = "wait" /\ listeningChan[p] = 1
    /\ \E x \in Stoppers : pc[x] = "idle" /\ result[x] = "nil"
    /\ stopsDone = MaxStops
    /\ mutex = "free"

\* --------------------------- properties of WaitUntilServiceState
\* C9: when the first stateCheck reports done and no error, the call
\* returns that check's state and a nil error, stateTransition is never
\* invoked and stateCheck is invoked exactly once.
C9_DoneAtFirstCheck ==
    (wFirst.done /\ wFirst.err = "nil") =>
        /\ wpc = "returned"
        /\ wRet = [state |-> wFirst.state, err |-> "nil"]
        /\ wTransitions = 0
        /\ wChecks = 1
        /\ wTrace = <<"check">>

C9_Witness ==
    /\ wpc = "returned"
    /\ wFirst.done
    /\ wFirst.err = "nil"
    /\ wFirst.state = "Running"

\* C10: stateTransition is invoked at most once, after the first
\* stateCheck and before every polling one, and no two invocations of
\* stateCheck overlap.
C10_OneTransition ==
    /\ wTransitions <= 1
    /\ wActive <= 1
    /\ \A k \in 1..Len(wTrace) :
        /\ wTrace[k] = "transition" => (k = 2 /\ wTrace[1] = "check")
        /\ wTrace[k] \in {"poll", "final"} => (k >= 3 /\ wTrace[2] = "transition")
        /\ wTrace[k] = "check" => k = 1

C10_Witness ==
    /\ wpc = "returned"
    /\ wTransitions = 1
    /\ Len(wTrace) >= 5
    /\ wTrace[3] = "poll"
    /\ wTrace[4] = "poll"
    /\ wTrace[Len(wTrace)] = "final"


\* Every stateCheck that has returned so far reported neither done nor an
\* error.
NeverDoneNeverFailed ==
    \A k \in 1..Len(wResults) : ~wResults[k].done /\ wResults[k].err = "nil"

\* C11: when stateTransition fails, the call returns at once with the state
\* the first stateCheck observed and the transition's error; the ticker and
\* the timer are never made and stateCheck is not invoked again.
C11_TransitionFailure ==
    wTransErr = "TransitionError" =>
        /\ wpc = "returned"
        /\ wRet = [state |-> wFirst.state, err |-> "TransitionError"]
        /\ ~wTimers
        /\ wChecks = 1
        /\ wTrace = <<"check", "transition">>

C11_Witness ==
    /\ wTransErr = "TransitionError"
    /\ wpc = "returned"
    /\ wFirst.state = "Paused"

\* C12: a stateCheck that fails is never retried.  When the first stateCheck
\* fails the call returns that error and stateTransition is not invoked; when
\* a polling stateCheck fails the call returns an error wrapping it, which is
\* not the Timeout error; a failed first or polling stateCheck is the last
\* thing the call invokes.
C12_FailedCheckNotRetried ==
    \A k \in 1..Len(wResults) :
        (wResults[k].err # "nil" /\ wResults[k].kind # "final") =>
            /\ k = Len(wResults)
            /\ wpc = "returned"
            /\ wActive = 0
            /\ wChecks = k
            /\ wTrace[Len(wTrace)] = wResults[k].kind
            /\ IF wResults[k].kind = "check"
               THEN /\ k = 1
                    /\ wRet = [state |-> wFirst.state, err |-> wFirst.err]
                    /\ wTransitions = 0
               ELSE /\ wRet = [state |-> wLast.state, err |-> "CheckFailed"]
                    /\ wRet.err # "Timedout"
                    /\ wTransitions = 1

C12_Witness ==
    /\ wpc = "returned"
    /\ Len(wResults) >= 3
    /\ wResults[Len(wResults)].kind = "poll"
    /\ wResults[Len(wResults)].err # "nil"

ReturnedNeverDone ==
    wpc = "returned" /\ wTransErr = "nil" /\ NeverDoneNeverFailed

\* C14 as stated: with a stateCheck that never reports done and never fails
\* the call returns the Timeout error after at least 8 and at most 12
\* stateChecks (interval 10, timeout 100).
C14_CheckCount_Original ==
    ReturnedNeverDone =>
        /\ wRet.err = "Timedout"
        /\ wChecks >= 8
        /\ wChecks <= 12

\* C14: with a stateCheck that never reports done and never fails the call
\* always returns, with the Timeout error, after no more stateChecks than
\* elapsed time / interval plus two; when no time passes while a stateCheck
\* runs or while a select case is ready, interval 10 and timeout 100 give at
\* least 8 and at most 12 stateChecks.
C14_TimeoutTermination ==
    /\ <>(wpc = "returned")
    /\ [](ReturnedNeverDone =>
            /\ wRet.err = "Timedout"
            /\ wChecks <= (wElapsed \div WInterval) + 2
            /\ ~wLate => (wChecks >= 8 /\ wChecks <= 12))

C14_Witness ==
    /\ ReturnedNeverDone
    /\ ~wLate
    /\ wRet.err = "Timedout"
    /\ wChecks = (WTimeout \div WInterval) + 2

\* C15: no stateCheck failure is swallowed: once the call has returned, every
\* stateCheck that returned an error, the final one included, has made the
\* call report a check failure.
C15_NoCheckFailureSwallowed ==
    wpc = "returned" =>
        \A k \in 1..Len(wResults) :
            wResults[k].err # "nil" => wRet.err \in {"CheckError", "CheckFailed"}


\* ------------------------- properties of GetDependentsForService
\* The services of allowed reached from S along dGraph, S included.
RECURSIVE Closure(_, _)
Closure(S, allowed) ==
    LET next == S \cup {d \in allowed : \E s \in S : <<s, d>> \in dGraph}
    IN  IF next = S THEN S ELSE Closure(next, allowed)

\* The running services reached from the root through running services.
ActiveReach == IF dRoot \in dActive THEN Closure({dRoot}, dActive) ELSE {}

\* No service is, directly or not, a dependent of itself.
Acyclic == \A s \in Services : s \notin Closure(Dependents(s), Services)

\* The call has returned serviceNames and a nil error.
DepReturned == dpc = "returned" /\ dErr = "nil"

\* C16: a service that is not Running is neither recorded nor expanded, so
\* the result holds exactly the running services reached through running
\* services: with A running, its dependents B running and C stopped, and D
\* running but a dependent of C only, the result is [B, A]; with a root that
\* is not running the result is empty.
C16_InactiveSkipped ==
    /\ Range(serviceNames) \subseteq ActiveReach
    /\ \A s \in Services : dLookups[s] > 0 => s \in dActive
    /\ DepReturned =>
        /\ Range(serviceNames) = ActiveReach
        /\ dRoot \notin dActive => serviceNames = <<>>
        /\ ( /\ dGraph = {<<"A", "B">>, <<"A", "C">>, <<"C", "D">>}
             /\ dActive = {"A", "B", "D"} ) => serviceNames = <<"B", "A">>

C16_Witness ==
    /\ DepReturned
    /\ dGraph = {<<"A", "B">>, <<"A", "C">>, <<"C", "D">>}
    /\ dActive = {"A", "B", "D"}
    /\ serviceNames = <<"B", "A">>

\* C17: no service name is processed twice: each name occurs at most once in
\* serviceNames and GetDependents is called at most once on each service.
C17_NoNameTwice ==
    /\ \A j, k \in 1..Len(serviceNames) :
           serviceNames[j] = serviceNames[k] => j = k
    /\ \A s \in Services : dLookups[s] <= 1

\* C18: the call returns on every graph, cycles among running services
\* included.
C18_Terminates == <>(dpc = "returned")

\* C19: on an acyclic graph the returned list has every dependent before the
\* service it depends on: for running s and d in the result with d a
\* dependent of s, some occurrence of d precedes every occurrence of s, also
\* when d is reached at a smaller depth than s; a running root is the last
\* element.
C19_DependentsFirst ==
    (DepReturned /\ Acyclic) =>
        /\ \A k \in 1..Len(serviceNames) :
               \A d \in Dependents(serviceNames[k]) \cap Range(serviceNames) :
                   \E j \in 1..(k - 1) : serviceNames[j] = d
        /\ dRoot \in dActive => serviceNames[Len(serviceNames)] = dRoot

C19_Witness ==
    /\ DepReturned
    /\ dGraph = {<<"A", "B">>, <<"A", "C">>, <<"B", "C">>}
    /\ dActive = {"A", "B", "C"}
    /\ serviceNames = <<"C", "B", "C", "A">>


\* ------------------------------------------- properties of StopService
\* The first stopSingleService call failed because the stop method gave the
\* "dependents still running" result code.
FirstStopBlocked ==
    /\ Len(sStops) >= 1
    /\ sStops[1].invoked
    /\ sStops[1].retVal = stopServiceErrorCodeDependentRunning
    /\ sStops[1].err # "nil"

\* C20: the cascade is entered only when force is set and the first stop
\* failed with the "dependents still running" result code; in every other
\* case the call returns what the first stop returned,
\* GetDependentsForService is never called and no other service is stopped.
C20_CascadeOnlyWhenBlocked ==
    /\ (sGetDeps > 0 \/ Len(sStops) > 1) => (sForce /\ FirstStopBlocked)
    /\ (spc = "returned" /\ ~(sForce /\ FirstStopBlocked)) =>
        /\ sRet = sStops[1].err
        /\ sGetDeps = 0
        /\ Len(sStops) = 1
        /\ sStops[1].name = sName
    /\ (Len(sStops) >= 1 /\ sForce /\ FirstStopBlocked) =>
        (spc # "returned" \/ sGetDeps = 1)

C20_Witness ==
    /\ spc = "returned"
    /\ sForce
    /\ Len(sStops) = 1
    /\ sStops[1].invoked
    /\ sStops[1].retVal = 1
    /\ sRet = "StopError"
    /\ sGetDeps = 0


\* C21: in the cascade the services are stopped one at a time in the order
\* of the list GetDependentsForService returned; a service is attempted only
\* after every service before it in the list was observed Stopped; the first
\* failed stop ends the call with its error and nothing after it is touched;
\* nil is returned only after the whole list; a failure of
\* GetDependentsForService is returned as an error and stops nothing.
C21_CascadeInOrder ==
    /\ Len(sStops) <= Len(sNames) + 1
    /\ \A k \in 2..Len(sStops) :
        /\ sStops[k].name = sNames[k - 1]
        /\ \A j \in 2..(k - 1) :
               sStops[j].err = "nil" /\ sStops[j].state = "Stopped"
    /\ (Len(sStops) >= 2 /\ sStops[Len(sStops)].err # "nil") =>
           (spc = "returned" /\ sRet = sStops[Len(sStops)].err)
    /\ (spc = "returned" /\ sGetDeps > 0 /\ sRet = "nil") =>
        /\ Len(sStops) = Len(sNames) + 1
        /\ \A k \in 2..Len(sStops) : sStops[k].state = "Stopped"
    /\ sErr = "GetDependentsError" =>
        /\ spc = "returned"
        /\ sRet = "GetDependentsFailed"
        /\ Len(sStops) = 1

C21_Witness ==
    /\ spc = "returned"
    /\ sNames = <<"B", "A">>
    /\ Len(sStops) = 2
    /\ sStops[2].name = "B"
    /\ sRet = "StopTimedOut"

\* C28: StopService(name, true) returns nil only if the named service was
\* observed Stopped during the call, by a stateCheck or by the traversal, also
\* when the first stop is refused with the "dependents still running" code
\* while the named service is not Running.
C28_SuccessMeansStopped ==
    (spc = "returned" /\ sForce /\ sRet = "nil") =>
        \/ \E k \in 1..Len(sStops) :
               sStops[k].name = sName /\ sStops[k].state = "Stopped"
        \/ sRootState = "Stopped"


\* ------------------------------------------ properties of StartService
\* The state the last stateCheck of the run observed.
LastObservedState ==
    IF FirstCheckReturns(tRun.first) \/ StartTransitionFails(tRun)
    THEN tRun.first.state
    ELSE tRun.last.state

\* C29: StartService returns nil iff WaitUntilServiceState returned the state
\* Running with a nil or Timeout error: a timeout whose final check observed
\* Running is a success, a timeout with any other state is a "timed out"
\* error, a check failure or a transition failure (a start result code other
\* than accepted or already running) is returned as an error, and nil is never
\* returned when the last observed state is not Running.
C29_StartSuccess ==
    tpc = "returned" =>
        LET w == StartWaitResult(tRun) IN
        /\ tRet = "nil" <=> (w.state = "Running" /\ w.err \in {"nil", "Timedout"})
        /\ (w.err = "Timedout" /\ w.state # "Running") => tRet = "StartTimedOut"
        /\ w.err \in {"CheckError", "CheckFailed", "TransitionError"} =>
               tRet = w.err
        /\ ( /\ ~FirstCheckReturns(tRun.first)
             /\ tRun.retVal \notin {startServiceErrorCodeAccepted,
                                    startServiceErrorCodeAlreadyRunning} ) =>
               tRet = "TransitionError"
        /\ tRet = "nil" => LastObservedState = "Running"

C29_Witness ==
    /\ tpc = "returned"
    /\ tRet = "nil"
    /\ tRun.first.state = "Stopped"
    /\ tRun.retVal = startServiceErrorCodeAlreadyRunning
    /\ tRun.ending = "timeout"
    /\ tRun.last.state = "Running"


\* --------------------------------- properties of instance mappings
\* The keys of the instances of a list.
KeysOf(list) == {list[k].key : k \in 1..Len(list)}

\* A target is correlated with a portal: the mapping has an entry for its
\* key and the mapped key is the key of some portal.
Correlated(inst, mappings, associated) ==
    /\ inst.key \in DOMAIN mappings
    /\ mappings[inst.key] \in KeysOf(associated)

\* C22: FindInstancesByMapping returns a source record iff its key has an
\* entry in the mapping and the mapped key is the key of a reference record;
\* with no reference record nothing is returned, and a source record without
\* an entry is left out without an error.
C22_SemiJoin ==
    ppc \in {"convert", "returned"} /\ pErr \in {"none", "nil", "ConvertError"}
        =>
        /\ \A k \in 1..Len(pInstances) :
               (\E j \in 1..Len(pTargetInstances) :
                    pTargetInstances[j] = pInstances[k])
               <=> Correlated(pInstances[k], pMapping, pPortals)
        /\ \A j \in 1..Len(pTargetInstances) :
               \E k \in 1..Len(pInstances) : pInstances[k] = pTargetInstances[j]
        /\ pPortals = <<>> => pTargetInstances = <<>>
        /\ ppc = "returned" /\ pErr = "nil" => pTargets = pTargetInstances

C22_Witness ==
    /\ ppc = "returned"
    /\ pErr = "nil"
    /\ Len(pInstances) = 2
    /\ Len(pTargets) = 1
    /\ pTargets[1].id = 2
    /\ pInstances[1].key \notin DOMAIN pMapping
    /\ Len(pPortals) = 2

\* C24: the mapping built from the association rows keeps the pair of every
\* row, also when rows share a source key: every row is found again by a
\* lookup of its source key.
C24_EveryRowKept ==
    ppc \in {"find", "convert"} =>
        \A k \in 1..Len(pRows) :
            /\ pRows[k].source \in DOMAIN pMapping
            /\ pMapping[pRows[k].source] = pRows[k].target


\* res holds instances of list, each at most once, in the order of list.
InOrderOf(res, list) ==
    /\ \A j \in 1..Len(res) :
           res[j].id \in 1..Len(list) /\ res[j] = list[res[j].id]
    /\ \A i, j \in 1..Len(res) : i < j => res[i].id < res[j].id

\* The steps of a call that have happened, as a set.
StepsDone == {kSteps[k] : k \in 1..Len(kSteps)}

StepAt(step) == CHOOSE k \in 1..Len(kSteps) : kSteps[k] = step

\* step a was made, and before step b.
StepBefore(a, b) ==
    a \in StepsDone /\ b \in StepsDone /\ StepAt(a) < StepAt(b)

\* The disk is on a connection, found by the query, that the mappings in WMI
\* take to the target.
OnTarget(disk) ==
    /\ disk.key \in DOMAIN wmiDiskMapping
    /\ \E k \in 1..Len(wmiConnections) :
        /\ wmiConnections[k].key = wmiDiskMapping[disk.key]
        /\ wmiConnections[k].key \in DOMAIN wmiConnectionMapping
        /\ wmiConnectionMapping[wmiConnections[k].key] = kTarget.key

\* C25: ListDisksByTarget composes two lookups: a nil error comes with exactly
\* the disks whose key the disk mapping takes to a connection that the
\* connection mapping takes to the target; each mapping is listed, whole and
\* without error, before the lookup that uses it, the second lookup after
\* the first; and every failing step ends the call with an empty list.
C25_TwoHops ==
    /\ kpc = "returned" /\ kErr = "nil" =>
           filteredDisks = SelectSeq(wmiDisks, OnTarget)
    /\ kpc = "returned" /\ kErr # "nil" =>
           /\ filteredDisks = <<>>
           /\ kSteps # <<>>
           /\ \A k \in 1..Len(kSteps) - 1 : kSteps[k] # kSteps[Len(kSteps)]
    /\ kErr \notin {"none", "nil"} => kpc = "returned"
    /\ "findConnections" \in StepsDone =>
           /\ StepBefore("connectionMapping", "findConnections")
           /\ connectionToTargetMapping = wmiConnectionMapping
    /\ "findDisks" \in StepsDone =>
           /\ StepBefore("diskMapping", "findDisks")
           /\ StepBefore("findConnections", "findDisks")
           /\ diskToConnectionMapping = wmiDiskMapping
    /\ Len(kSteps) <= 7

C25_Witness ==
    /\ kpc = "returned"
    /\ kErr = "nil"
    /\ Len(wmiDisks) = 2
    /\ Len(filteredDisks) = 1
    /\ \A k \in 1..2 : /\ wmiDisks[k].key \in DOMAIN wmiDiskMapping
                       /\ wmiDiskMapping[wmiDisks[k].key] \in KeysOf(wmiConnections)
    /\ Len(connectionsToTarget) = 1

====
